---- MODULE Spec2Model ----
(***************************************************************************)
(* A model of scrape_images.py: the discovery loop (scrape_slugs), the     *)
(* checkpoint store (atomic_write, load_checkpoint, save_checkpoint), the  *)
(* fetch worker (download) and the coordinator (main).                     *)
(*                                                                         *)
(* SpecScrape is the discovery phase of main (line 178), with process      *)
(* kills and restarts.  Spec is the download phase of main (lines          *)
(* 181-221) over a fixed slug list, with process kills and re-runs.        *)
(***************************************************************************)
EXTENDS Integers, Sequences, FiniteSets, TLC

\* ---------------------------------------------------------------- constants

MAX_WORKERS == 8
MAX_RETRIES == 4
CHECKPOINT_INTERVAL == 5
\* BACKOFF_BASE = 1.5, kept as the fraction BACKOFF_NUM / BACKOFF_DEN
BACKOFF_NUM == 3
BACKOFF_DEN == 2

\* ------------------------------------------------------------------- bounds

\* identifiers the listing endpoint holds (N of the termination bound)
NumIds == 7
\* processes started one after the other on the same output folder
MaxRuns == 2
\* identifiers handed to the download phase
MaxSlugs == 3
\* slugs for which, in one process, the environment makes asset requests
\* fail or file operations raise
MaxFlaky == 1
\* distinct asset payloads the asset endpoint serves
MaxPayloads == 2

Ids == 1..NumIds
Slugs == 1..MaxSlugs
Payloads == 1..MaxPayloads
Outcomes == {"ok", "skip", "dedup", "fail"}

VARIABLES
  \* ---- the output folder (survives a kill)
  ckpt,            \* slugs_checkpoint.txt
  ckptTmp,         \* slugs_checkpoint.txt.tmp
  completedFile,   \* completed_downloads.txt
  failedFile,      \* failed_downloads.txt
  files,           \* piixes.com/api/icon/512/<slug>.png, per slug
  \* ---- the servers
  perRound,        \* k: new identifiers per listing response
  cursor,          \* the listing endpoint's implicit cursor
  cursorMode,      \* what the cursor does when a new process connects
  content,         \* the asset endpoint's payload per slug
  \* ---- the process
  run,             \* 1 for the first process, 2 for the restarted one, ...
  pcM,             \* where main is
  lock,            \* threading.Lock(): LockFree or its holder
  \* ---- scrape_slugs locals
  pcS, slugs, rounds, new_since_save, found, inFinal,
  \* ---- main locals of the download phase
  completed, slugs_to_download, seen_hashes, results, failed_slugs,
  \* ---- download(slug) locals, per slug
  wpc, attempt, resp, status, collected,
  \* ---- observations (written, never read, by the program)
  listCalls,       \* listing requests issued by this process
  saves,           \* save_checkpoint calls completed by this process
  ckpt0,           \* the checkpoint's content before the first process
  savedEver,       \* some save_checkpoint completed in an earlier process
  lostRun,         \* an earlier process was killed or aborted
  lastSaved,       \* the text of the last save_checkpoint that returned
  raised,          \* a listing request of this process raised
  killedAt,        \* where scrape_slugs was when the process was killed
  badStatus,       \* a listing response of this process had a 4xx or 5xx
  assetCalls,      \* asset requests issued per slug by this process
  sleeps,          \* the backoff sleeps per slug, in order
  fsFailed,        \* slugs for which a file operation raised, this process
  written,         \* slugs whose asset file this process wrote
  inserted,        \* slugs that added their digest to seen_hashes
  prevOutcome,     \* each slug's outcome in the process before this one
  prevFinished,    \* the process before this one ran to its end
  cutOff           \* slugs a kill caught between file creation and log line

diskVars == <<ckpt, ckptTmp, completedFile, failedFile, files>>
serverVars == <<perRound, cursor, cursorMode, content>>
scrapeVars == <<pcS, slugs, rounds, new_since_save, found, inFinal>>
mainVars == <<completed, slugs_to_download, seen_hashes, results, failed_slugs>>
workerVars == <<wpc, attempt, resp, status, collected>>
scrapeObs == <<listCalls, saves, ckpt0, savedEver, lostRun, lastSaved, raised,
              killedAt, badStatus>>
downloadObs == <<assetCalls, sleeps, fsFailed, written, inserted,
                prevOutcome, prevFinished, cutOff>>
vars == <<diskVars, serverVars, run, pcM, lock, scrapeVars, mainVars,
          workerVars, scrapeObs, downloadObs>>

\* ---------------------------------------------------------------- the lock

LockFree == <<"free", 0>>
LockMain == <<"main", 0>>
LockOf(s) == <<"worker", s>>

\* ------------------------------------------------------------------- files

NoFile == [exists |-> FALSE, lines |-> <<>>]
File(ls) == [exists |-> TRUE, lines |-> ls]

Range(s) == {s[i] : i \in DOMAIN s}

Min(S) == CHOOSE x \in S : \A y \in S : x <= y

\* sorted(slugs)
RECURSIVE sorted(_)
sorted(S) ==
  IF S = {} THEN <<>> ELSE <<Min(S)>> \o sorted(S \ {Min(S)})

Prefixes(s) == {SubSeq(s, 1, n) : n \in 0..Len(s)}

\* load_checkpoint(path): a missing file is the empty set
load_checkpoint(f) ==
  IF ~f.exists THEN {} ELSE Range(f.lines)

\* the text save_checkpoint hands to atomic_write, line by line
CheckpointText(S) == sorted(S)

\* a slip: open(path, "w"), which truncates the target itself
AwOpenInPlace(target, tmp) == <<File(<<>>), tmp>>

\* atomic_write, line 36: open(tmp_path, "w") creates or truncates the
\* temporary file; the target is not touched
AwOpen(target, tmp) == <<target, File(<<>>)>>

\* atomic_write, line 37 and the close of the with block: the whole text
AwWrite(target, tmp, text) == <<target, File(text)>>

\* atomic_write, line 38: os.replace(tmp_path, path)
AwReplace(target, tmp) == <<tmp, NoFile>>

\* atomic_write as one call
atomic_write(target, tmp, text) ==
  LET a == AwOpen(target, tmp)
      b == AwWrite(a[1], a[2], text)
  IN AwReplace(b[1], b[2])

\* ------------------------------------------------------ the listing endpoint

\* page c of the listing: perRound new identifiers per page, nothing after
\* the last one
Page(c, k) == {i \in Ids : (c - 1) * k < i /\ i <= c * k}

\* the set an uninterrupted, failure-free scrape_slugs returns when it
\* starts with the set S and the cursor at page c (lines 61-87)
RECURSIVE ScrapeResult(_, _, _)
ScrapeResult(S, c, k) ==
  IF Page(c, k) \ S = {} THEN S ELSE ScrapeResult(S \cup Page(c, k), c + 1, k)

\* ------------------------------------------------------------ initial states

\* what a fresh process holds in memory before main reaches line 178
FreshMemory ==
  /\ lock = LockFree
  /\ pcS = "load" /\ slugs = {} /\ rounds = 0 /\ new_since_save = 0
  /\ found = 0 /\ inFinal = FALSE
  /\ completed = {} /\ slugs_to_download = {} /\ seen_hashes = {}
  /\ results = [o \in Outcomes |-> 0]
  /\ failed_slugs = <<>>
  /\ wpc = [s \in Slugs |-> "off"]
  /\ attempt = [s \in Slugs |-> 0]
  /\ resp = [s \in Slugs |-> <<>>]
  /\ status = [s \in Slugs |-> "none"]
  /\ collected = {}

FreshScrapeNext ==
  /\ pcS' = "load" /\ slugs' = {} /\ rounds' = 0 /\ new_since_save' = 0
  /\ found' = 0 /\ inFinal' = FALSE

FreshDownloadNext ==
  /\ completed' = {} /\ slugs_to_download' = {} /\ seen_hashes' = {}
  /\ results' = [o \in Outcomes |-> 0]
  /\ failed_slugs' = <<>>
  /\ wpc' = [s \in Slugs |-> "off"]
  /\ attempt' = [s \in Slugs |-> 0]
  /\ resp' = [s \in Slugs |-> <<>>]
  /\ status' = [s \in Slugs |-> "none"]
  /\ collected' = {}

FreshObs ==
  /\ listCalls = 0 /\ saves = 0
  /\ savedEver = FALSE /\ lostRun = FALSE /\ raised = FALSE
  /\ killedAt = "none" /\ badStatus = FALSE
  /\ assetCalls = [s \in Slugs |-> 0]
  /\ sleeps = [s \in Slugs |-> <<>>]
  /\ fsFailed = {}
  /\ written = {}
  /\ inserted = {}
  /\ prevOutcome = [s \in Slugs |-> "none"]
  /\ prevFinished = FALSE
  /\ cutOff = {}

FreshDownloadObsNext ==
  /\ assetCalls' = [s \in Slugs |-> 0]
  /\ sleeps' = [s \in Slugs |-> <<>>]
  /\ fsFailed' = {}
  /\ written' = {}
  /\ inserted' = {}

\* checkpoints an earlier use of the output folder may have left
PriorCheckpoints ==
  {NoFile} \cup {File(CheckpointText(S)) : S \in SUBSET {1, NumIds}}

InitScrape ==
  /\ ckpt \in PriorCheckpoints
  /\ ckptTmp = NoFile
  /\ completedFile = NoFile
  /\ failedFile = NoFile
  /\ files = [s \in Slugs |-> NoFile]
  /\ perRound \in 1..NumIds
  /\ cursor = 1
  /\ cursorMode \in {"continue", "restart"}
  /\ content = [s \in Slugs |-> <<1>>]
  /\ run = 1
  /\ pcM = "scrape"
  /\ FreshMemory
  /\ FreshObs
  /\ ckpt0 = ckpt
  /\ lastSaved = ckpt

\* ------------------------------------------------------------- scrape_slugs

\* line 52
ScrapeLoad ==
  /\ pcM = "scrape" /\ pcS = "load"
  /\ slugs' = load_checkpoint(ckpt)
  /\ rounds' = 0
  /\ new_since_save' = 0
  /\ pcS' = "request"
  /\ UNCHANGED <<diskVars, serverVars, run, pcM, lock, found, inFinal,
                 mainVars, workerVars, scrapeObs, downloadObs>>

\* lines 62-77: one listing request that returns, and the scan of its text
ListRequestOk ==
  /\ pcM = "scrape" /\ pcS = "request"
  /\ LET new == Page(cursor, perRound) \ slugs
     IN /\ slugs' = slugs \cup new
        /\ found' = Cardinality(new)
        /\ new_since_save' = new_since_save + Cardinality(new)
  /\ rounds' = rounds + 1
  /\ cursor' = cursor + 1
  /\ listCalls' = listCalls + 1
  /\ pcS' = "check"
  /\ UNCHANGED <<diskVars, perRound, cursorMode, content, run, pcM, lock,
                 inFinal, mainVars, workerVars, saves, ckpt0, savedEver,
                 lostRun, lastSaved, raised, killedAt, badStatus,
                 downloadObs>>

\* lines 62-77: the listing request returns with a 4xx or 5xx status.
\* r.status_code is never read: r.text, an error page that holds no icon
\* URL, is scanned like any other body, and the round finds nothing
ListRequestBadStatus ==
  /\ pcM = "scrape" /\ pcS = "request"
  /\ rounds' = rounds + 1
  /\ listCalls' = listCalls + 1
  /\ found' = 0
  /\ badStatus' = TRUE
  /\ pcS' = "check"
  /\ UNCHANGED <<diskVars, serverVars, run, pcM, lock, slugs, new_since_save,
                 inFinal, mainVars, workerVars, saves, ckpt0, savedEver,
                 lostRun, lastSaved, raised, killedAt, downloadObs>>

\* a slip: the exception is swallowed and the round counts as an empty one
ListRequestSwallowed ==
  /\ pcM = "scrape" /\ pcS = "request"
  /\ rounds' = rounds + 1
  /\ cursor' \in {cursor, cursor + 1}
  /\ listCalls' = listCalls + 1
  /\ found' = 0
  /\ pcS' = "check"
  /\ raised' = TRUE
  /\ UNCHANGED <<diskVars, perRound, cursorMode, content, run, lock, pcM,
                 slugs, new_since_save, inFinal, mainVars, workerVars,
                 saves, ckpt0, savedEver, lostRun, lastSaved, killedAt,
                 badStatus, downloadObs>>

\* lines 62-68: session.post raises (no connection, timeout); nothing in
\* scrape_slugs or main catches it, so the process ends with a traceback
ListRequestRaises ==
  /\ pcM = "scrape" /\ pcS = "request"
  /\ rounds' = rounds + 1
  /\ cursor' \in {cursor, cursor + 1}
  /\ listCalls' = listCalls + 1
  /\ pcM' = "aborted"
  /\ raised' = TRUE
  /\ UNCHANGED <<diskVars, perRound, cursorMode, content, run, lock, pcS,
                 slugs, new_since_save, found, inFinal, mainVars, workerVars,
                 saves, ckpt0, savedEver, lostRun, lastSaved, killedAt,
                 badStatus, downloadObs>>

\* a slip: the periodic save waits for more than CHECKPOINT_INTERVAL
NeedCheckpointLate(n) == n > CHECKPOINT_INTERVAL

\* line 80
NeedCheckpoint(n) == n >= CHECKPOINT_INTERVAL

\* a slip: the loop also ends on a round that found one identifier
LoopEndsEarly(f) == f <= 1

\* line 86
LoopEnds(f) == f = 0

\* line 80: the periodic checkpoint is due or not
CheckpointCheck ==
  /\ pcM = "scrape" /\ pcS = "check"
  /\ inFinal' = FALSE
  /\ pcS' = IF NeedCheckpoint(new_since_save) THEN "save_lock" ELSE "brk"
  /\ UNCHANGED <<diskVars, serverVars, run, pcM, lock, slugs, rounds,
                 new_since_save, found, mainVars, workerVars, scrapeObs,
                 downloadObs>>

\* lines 81 and 92: with lock
SaveAcquire ==
  /\ pcM = "scrape" /\ pcS = "save_lock"
  /\ lock = LockFree
  /\ lock' = LockMain
  /\ pcS' = "save_open"
  /\ UNCHANGED <<diskVars, serverVars, run, pcM, slugs, rounds,
                 new_since_save, found, inFinal, mainVars, workerVars,
                 scrapeObs, downloadObs>>

\* save_checkpoint -> atomic_write, line 36
SaveOpen ==
  /\ pcM = "scrape" /\ pcS = "save_open"
  /\ LET r == AwOpen(ckpt, ckptTmp)
     IN ckpt' = r[1] /\ ckptTmp' = r[2]
  /\ pcS' = "save_write"
  /\ UNCHANGED <<completedFile, failedFile, files, serverVars, run, pcM,
                 lock, slugs, rounds, new_since_save, found, inFinal,
                 mainVars, workerVars, scrapeObs, downloadObs>>

\* save_checkpoint -> atomic_write, line 37
SaveWrite ==
  /\ pcM = "scrape" /\ pcS = "save_write"
  /\ LET r == AwWrite(ckpt, ckptTmp, CheckpointText(slugs))
     IN ckpt' = r[1] /\ ckptTmp' = r[2]
  /\ pcS' = "save_replace"
  /\ UNCHANGED <<completedFile, failedFile, files, serverVars, run, pcM,
                 lock, slugs, rounds, new_since_save, found, inFinal,
                 mainVars, workerVars, scrapeObs, downloadObs>>

\* save_checkpoint -> atomic_write, line 38
SaveReplace ==
  /\ pcM = "scrape" /\ pcS = "save_replace"
  /\ LET r == AwReplace(ckpt, ckptTmp)
     IN ckpt' = r[1] /\ ckptTmp' = r[2]
  /\ saves' = saves + 1
  /\ lastSaved' = File(CheckpointText(slugs))
  /\ pcS' = "save_unlock"
  /\ UNCHANGED <<completedFile, failedFile, files, serverVars, run, pcM,
                 lock, slugs, rounds, new_since_save, found, inFinal,
                 mainVars, workerVars, listCalls, ckpt0, savedEver, lostRun,
                 raised, killedAt, badStatus, downloadObs>>

\* a slip: the counter is not reset after the periodic save
SaveReleaseNoReset ==
  /\ pcM = "scrape" /\ pcS = "save_unlock" /\ ~inFinal
  /\ lock' = LockFree
  /\ pcS' = "brk"
  /\ UNCHANGED <<diskVars, serverVars, run, pcM, slugs, rounds, found,
                 new_since_save, inFinal, mainVars, workerVars, scrapeObs,
                 downloadObs>>

\* lines 83-84: the end of the periodic with block, and the counter reset
SaveRelease ==
  /\ pcM = "scrape" /\ pcS = "save_unlock" /\ ~inFinal
  /\ lock' = LockFree
  /\ new_since_save' = 0
  /\ pcS' = "brk"
  /\ UNCHANGED <<diskVars, serverVars, run, pcM, slugs, rounds, found,
                 inFinal, mainVars, workerVars, scrapeObs, downloadObs>>

\* lines 86-89: leave the loop on a round that found nothing, else sleep
\* and go round again
LoopBreak ==
  /\ pcM = "scrape" /\ pcS = "brk"
  /\ IF LoopEnds(found)
       THEN inFinal' = TRUE /\ pcS' = "save_lock"
       ELSE inFinal' = FALSE /\ pcS' = "request"
  /\ UNCHANGED <<diskVars, serverVars, run, pcM, lock, slugs, rounds,
                 new_since_save, found, mainVars, workerVars, scrapeObs,
                 downloadObs>>

\* lines 94-96 and 178: the end of the final with block; scrape_slugs
\* returns and main goes on to the download phase
ScrapeReturn ==
  /\ pcM = "scrape" /\ pcS = "save_unlock" /\ inFinal
  /\ lock' = LockFree
  /\ pcS' = "returned"
  /\ pcM' = "filter"
  /\ UNCHANGED <<diskVars, serverVars, run, slugs, rounds, new_since_save,
                 found, inFinal, mainVars, workerVars, scrapeObs,
                 downloadObs>>

\* ------------------------------------------------------- kill and restart

\* what a kill leaves of the temporary file: a kill inside f.write leaves
\* any prefix of the text
TmpAfterKill ==
  IF pcM = "scrape" /\ pcS = "save_write"
    THEN {File(p) : p \in Prefixes(CheckpointText(slugs))}
    ELSE {ckptTmp}

\* the process is killed during discovery: the memory is gone, the
\* output folder stays
KillScrape ==
  /\ pcM = "scrape"
  /\ ckptTmp' \in TmpAfterKill
  /\ pcM' = "killed"
  /\ lostRun' = TRUE
  /\ killedAt' = pcS
  /\ lock' = LockFree
  /\ FreshScrapeNext
  /\ UNCHANGED <<ckpt, completedFile, failedFile, files, serverVars, run,
                 listCalls, saves, ckpt0, savedEver, lastSaved, raised,
                 badStatus, mainVars, workerVars, downloadObs>>

\* the program is started again on the same output folder
RestartScrape ==
  /\ pcM \in {"killed", "aborted"}
  /\ run < MaxRuns
  /\ run' = run + 1
  /\ pcM' = "scrape"
  /\ cursor' = IF cursorMode = "restart" THEN 1 ELSE cursor
  /\ lock' = LockFree
  /\ FreshScrapeNext
  /\ listCalls' = 0
  /\ saves' = 0
  /\ savedEver' = (savedEver \/ saves > 0)
  /\ lostRun' = TRUE
  /\ raised' = FALSE
  /\ killedAt' = "none"
  /\ badStatus' = FALSE
  /\ UNCHANGED <<diskVars, perRound, cursorMode, content, ckpt0, lastSaved,
                 mainVars, workerVars, downloadObs>>

NextScrape ==
  \/ ScrapeLoad
  \/ ListRequestOk
  \/ ListRequestBadStatus
  \/ ListRequestRaises
  \/ CheckpointCheck
  \/ SaveAcquire
  \/ SaveOpen
  \/ SaveWrite
  \/ SaveReplace
  \/ SaveRelease
  \/ LoopBreak
  \/ ScrapeReturn
  \/ KillScrape
  \/ RestartScrape

SpecScrape == InitScrape /\ [][NextScrape]_vars

\* ------------------------------------------------------------- the download

scrapeSide == <<ckpt, ckptTmp, perRound, cursor, cursorMode, scrapeVars,
                scrapeObs>>

\* line 103: the destination of a slug's asset file
DestPath(s) == <<"piixes.com/api/icon/512", s, "png">>

\* line 30
sha256(data) == <<"sha256", data>>

RECURSIVE Pow(_, _)
Pow(b, e) == IF e = 0 THEN 1 ELSE b * Pow(b, e - 1)

\* line 139: BACKOFF_BASE ** attempt, as numerator and denominator
Backoff(a) == <<Pow(BACKOFF_NUM, a), Pow(BACKOFF_DEN, a)>>

\* the failures download(s) has met: each one before a retry moved the
\* attempt on by one, and the last one ended it with "fail"
Faults(s) ==
  IF status[s] = "fail" THEN attempt[s]
  ELSE IF attempt[s] = 0 THEN 0 ELSE attempt[s] - 1

Flaky == {s \in Slugs : Faults(s) > 0}

\* the environment may fail an operation of download(s)
MayFail(s) == s \in Flaky \/ Cardinality(Flaky) < MaxFlaky

Running == {s \in Slugs : wpc[s] \notin {"off", "idle", "done"}}

\* the asset endpoint's payloads, one map for each way the slugs share
\* them: slug 1 has payload 1, and each next slug has a payload seen
\* before or the next new one
ContentMaps ==
  {[s \in Slugs |-> <<f[s]>>] :
     f \in {g \in [Slugs -> Payloads] :
              /\ g[1] = 1
              /\ \A s \in Slugs \ {1} : g[s - 1] <= g[s] /\ g[s] <= g[s - 1] + 1}}

Init ==
  /\ content \in ContentMaps
  /\ \E pre \in SUBSET Slugs :
       files = [s \in Slugs |-> IF s \in pre THEN File(content[s]) ELSE NoFile]
  /\ completedFile = NoFile
  /\ failedFile = NoFile
  /\ ckpt = File(CheckpointText(Slugs))
  /\ ckptTmp = NoFile
  /\ perRound = 1
  /\ cursor = 1
  /\ cursorMode = "continue"
  /\ run = 1
  /\ pcM = "filter"
  /\ lock = LockFree
  /\ pcS = "returned" /\ slugs = Slugs /\ rounds = 0 /\ new_since_save = 0
  /\ found = 0 /\ inFinal = TRUE
  /\ completed = {} /\ slugs_to_download = {} /\ seen_hashes = {}
  /\ results = [o \in Outcomes |-> 0]
  /\ failed_slugs = <<>>
  /\ wpc = [s \in Slugs |-> "off"]
  /\ attempt = [s \in Slugs |-> 0]
  /\ resp = [s \in Slugs |-> <<>>]
  /\ status = [s \in Slugs |-> "none"]
  /\ collected = {}
  /\ FreshObs
  /\ ckpt0 = ckpt
  /\ lastSaved = ckpt

\* a slip: the completed log is loaded and nothing is filtered out
MainFilterNone ==
  /\ pcM = "filter"
  /\ completed' = load_checkpoint(completedFile)
  /\ slugs_to_download' = slugs
  /\ pcM' = IF slugs_to_download' = {} THEN "done" ELSE "submit"
  /\ UNCHANGED <<diskVars, content, run, lock, scrapeSide, seen_hashes,
                 results, failed_slugs, workerVars, downloadObs>>

\* lines 182-191: load the completed log, filter, return if nothing is left
MainFilter ==
  /\ pcM = "filter"
  /\ completed' = load_checkpoint(completedFile)
  /\ slugs_to_download' = slugs \ completed'
  /\ pcM' = IF slugs_to_download' = {} THEN "done" ELSE "submit"
  /\ UNCHANGED <<diskVars, content, run, lock, scrapeSide, seen_hashes,
                 results, failed_slugs, workerVars, downloadObs>>

\* lines 195-203: the registry, the tallies, and one future per slug
MainSubmit ==
  /\ pcM = "submit"
  /\ seen_hashes' = {}
  /\ results' = [o \in Outcomes |-> 0]
  /\ failed_slugs' = <<>>
  /\ wpc' = [s \in Slugs |-> IF s \in slugs_to_download THEN "idle" ELSE "off"]
  /\ pcM' = "collect"
  /\ UNCHANGED <<diskVars, content, run, lock, scrapeSide, completed,
                 slugs_to_download, attempt, resp, status, collected,
                 downloadObs>>

\* a slip: no existing-file check, every dispatched slug is requested
WorkerStartNoCheck(s) ==
  /\ pcM = "collect" /\ wpc[s] = "idle"
  /\ Cardinality(Running) < MAX_WORKERS
  /\ attempt' = [attempt EXCEPT ![s] = 1]
  /\ wpc' = [wpc EXCEPT ![s] = "request"]
  /\ UNCHANGED <<diskVars, content, run, pcM, lock, scrapeSide, mainVars,
                 resp, status, collected, downloadObs>>

\* a change not in the code: a file without its payload counts as absent
WorkerStartVerifies(s) ==
  /\ pcM = "collect" /\ wpc[s] = "idle"
  /\ Cardinality(Running) < MAX_WORKERS
  /\ IF files[s].exists /\ files[s].lines # <<>>
       THEN /\ status' = [status EXCEPT ![s] = "skip"]
            /\ wpc' = [wpc EXCEPT ![s] = "done"]
            /\ UNCHANGED attempt
       ELSE /\ attempt' = [attempt EXCEPT ![s] = 1]
            /\ wpc' = [wpc EXCEPT ![s] = "request"]
            /\ UNCHANGED status
  /\ UNCHANGED <<diskVars, content, run, pcM, lock, scrapeSide, mainVars,
                 resp, collected, downloadObs>>

\* lines 98-109: a pool thread takes the future; the existing-file check
WorkerStart(s) ==
  /\ pcM = "collect" /\ wpc[s] = "idle"
  /\ Cardinality(Running) < MAX_WORKERS
  /\ IF files[s].exists
       THEN /\ status' = [status EXCEPT ![s] = "skip"]
            /\ wpc' = [wpc EXCEPT ![s] = "done"]
            /\ UNCHANGED attempt
       ELSE /\ attempt' = [attempt EXCEPT ![s] = 1]
            /\ wpc' = [wpc EXCEPT ![s] = "request"]
            /\ UNCHANGED status
  /\ UNCHANGED <<diskVars, content, run, pcM, lock, scrapeSide, mainVars,
                 resp, collected, downloadObs>>

\* a slip: range(1, MAX_RETRIES), so the third failure is the last
ExceptEarly(s) ==
  IF attempt[s] >= MAX_RETRIES - 1
    THEN /\ status' = [status EXCEPT ![s] = "fail"]
         /\ wpc' = [wpc EXCEPT ![s] = "done"]
         /\ UNCHANGED <<attempt, sleeps>>
    ELSE /\ sleeps' = [sleeps EXCEPT ![s] = Append(@, Backoff(attempt[s]))]
         /\ attempt' = [attempt EXCEPT ![s] = @ + 1]
         /\ wpc' = [wpc EXCEPT ![s] = "request"]
         /\ UNCHANGED status

\* lines 136-139: the except branch
Except(s) ==
  IF attempt[s] = MAX_RETRIES
    THEN /\ status' = [status EXCEPT ![s] = "fail"]
         /\ wpc' = [wpc EXCEPT ![s] = "done"]
         /\ UNCHANGED <<attempt, sleeps>>
    ELSE /\ sleeps' = [sleeps EXCEPT ![s] = Append(@, Backoff(attempt[s]))]
         /\ attempt' = [attempt EXCEPT ![s] = @ + 1]
         /\ wpc' = [wpc EXCEPT ![s] = "request"]
         /\ UNCHANGED status

\* lines 111-119: the request returns 200; the digest is taken
RequestOk(s) ==
  /\ pcM = "collect" /\ wpc[s] = "request"
  /\ assetCalls' = [assetCalls EXCEPT ![s] = @ + 1]
  /\ resp' = [resp EXCEPT ![s] = content[s]]
  /\ wpc' = [wpc EXCEPT ![s] = "lock1"]
  /\ UNCHANGED <<diskVars, content, run, pcM, lock, scrapeSide, mainVars,
                 attempt, status, collected, sleeps, fsFailed, written,
                 inserted, prevOutcome, prevFinished, cutOff>>

\* lines 111-117 and 136-139: the request raises or returns a non-200
RequestFails(s) ==
  /\ pcM = "collect" /\ wpc[s] = "request"
  /\ MayFail(s)
  /\ assetCalls' = [assetCalls EXCEPT ![s] = @ + 1]
  /\ Except(s)
  /\ UNCHANGED <<diskVars, content, run, pcM, lock, scrapeSide, mainVars,
                 resp, collected, fsFailed, written, inserted, prevOutcome,
                 prevFinished, cutOff>>

\* a slip: the check and the insert are done without taking the lock
Acquire1Unlocked(s) ==
  /\ pcM = "collect" /\ wpc[s] = "lock1"
  /\ wpc' = [wpc EXCEPT ![s] = "cs1"]
  /\ UNCHANGED <<diskVars, content, run, pcM, lock, scrapeSide, mainVars,
                 attempt, resp, status, collected, downloadObs>>

\* line 121: with lock
Acquire1(s) ==
  /\ pcM = "collect" /\ wpc[s] = "lock1"
  /\ lock = LockFree
  /\ lock' = LockOf(s)
  /\ wpc' = [wpc EXCEPT ![s] = "cs1"]
  /\ UNCHANGED <<diskVars, content, run, pcM, scrapeSide, mainVars,
                 attempt, resp, status, collected, downloadObs>>

\* a slip: the check in one critical section and the insert in another,
\* so that a second worker can check between the two
CheckInsertRacy(s) ==
  /\ pcM = "collect"
  /\ \/ /\ wpc[s] = "cs1"
        /\ IF sha256(resp[s]) \in seen_hashes
             THEN /\ status' = [status EXCEPT ![s] = "dedup"]
                  /\ wpc' = [wpc EXCEPT ![s] = "done"]
             ELSE /\ wpc' = [wpc EXCEPT ![s] = "insert"]
                  /\ UNCHANGED status
        /\ lock' = LockFree
        /\ UNCHANGED <<seen_hashes, inserted>>
     \/ /\ wpc[s] = "insert"
        /\ lock = LockFree
        /\ seen_hashes' = seen_hashes \cup {sha256(resp[s])}
        /\ inserted' = inserted \cup {s}
        /\ wpc' = [wpc EXCEPT ![s] = "write"]
        /\ UNCHANGED <<status, lock>>
  /\ UNCHANGED <<diskVars, content, run, pcM, scrapeSide, completed,
                 slugs_to_download, results, failed_slugs, attempt, resp,
                 collected, assetCalls, sleeps, fsFailed, written,
                 prevOutcome, prevFinished, cutOff>>

\* a slip: the early return on a known digest leaves the lock held
CheckInsertKeepsLock(s) ==
  /\ pcM = "collect" /\ wpc[s] = "cs1"
  /\ IF sha256(resp[s]) \in seen_hashes
       THEN /\ status' = [status EXCEPT ![s] = "dedup"]
            /\ wpc' = [wpc EXCEPT ![s] = "done"]
            /\ UNCHANGED <<seen_hashes, inserted, lock>>
       ELSE /\ seen_hashes' = seen_hashes \cup {sha256(resp[s])}
            /\ inserted' = inserted \cup {s}
            /\ wpc' = [wpc EXCEPT ![s] = "write"]
            /\ lock' = LockFree
            /\ UNCHANGED status
  /\ UNCHANGED <<diskVars, content, run, pcM, scrapeSide, completed,
                 slugs_to_download, results, failed_slugs, attempt, resp,
                 collected, assetCalls, sleeps, fsFailed, written,
                 prevOutcome, prevFinished, cutOff>>

\* lines 122-124 and the end of the with block: check, insert, release
CheckInsert(s) ==
  /\ pcM = "collect" /\ wpc[s] = "cs1"
  /\ IF sha256(resp[s]) \in seen_hashes
       THEN /\ status' = [status EXCEPT ![s] = "dedup"]
            /\ wpc' = [wpc EXCEPT ![s] = "done"]
            /\ UNCHANGED <<seen_hashes, inserted>>
       ELSE /\ seen_hashes' = seen_hashes \cup {sha256(resp[s])}
            /\ inserted' = inserted \cup {s}
            /\ wpc' = [wpc EXCEPT ![s] = "write"]
            /\ UNCHANGED status
  /\ lock' = LockFree
  /\ UNCHANGED <<diskVars, content, run, pcM, scrapeSide, completed,
                 slugs_to_download, results, failed_slugs, attempt, resp,
                 collected, assetCalls, sleeps, fsFailed, written,
                 prevOutcome, prevFinished, cutOff>>

\* a slip: the write is put off until after the completed-log line
WriteFileLater(s) ==
  /\ pcM = "collect" /\ wpc[s] = "write"
  /\ wpc' = [wpc EXCEPT ![s] = "lock2"]
  /\ UNCHANGED <<diskVars, content, run, pcM, lock, scrapeSide, mainVars,
                 attempt, resp, status, collected, downloadObs>>

\* lines 126-127: open(path, "wb") and f.write(r.content)
WriteFile(s) ==
  /\ pcM = "collect" /\ wpc[s] = "write"
  /\ files' = [files EXCEPT ![s] = File(resp[s])]
  /\ written' = written \cup {s}
  /\ wpc' = [wpc EXCEPT ![s] = "lock2"]
  /\ UNCHANGED <<ckpt, ckptTmp, completedFile, failedFile, content, run,
                 pcM, lock, scrapeSide, mainVars, attempt, resp, status,
                 collected, assetCalls, sleeps, fsFailed, inserted,
                 prevOutcome, prevFinished, cutOff>>

\* lines 126-127 and 136-139: open or write raises (no space, no
\* permission); the file is not there or is there without its payload
WriteRaises(s) ==
  /\ pcM = "collect" /\ wpc[s] = "write"
  /\ MayFail(s)
  /\ files' \in {files, [files EXCEPT ![s] = File(<<>>)]}
  /\ fsFailed' = fsFailed \cup {s}
  /\ Except(s)
  /\ UNCHANGED <<ckpt, ckptTmp, completedFile, failedFile, content, run,
                 pcM, lock, scrapeSide, mainVars, resp, collected,
                 assetCalls, written, inserted, prevOutcome, prevFinished, cutOff>>

\* line 130: with lock
Acquire2(s) ==
  /\ pcM = "collect" /\ wpc[s] = "lock2"
  /\ lock = LockFree
  /\ lock' = LockOf(s)
  /\ wpc' = [wpc EXCEPT ![s] = "cs2"]
  /\ UNCHANGED <<diskVars, content, run, pcM, scrapeSide, mainVars,
                 attempt, resp, status, collected, downloadObs>>

\* a slip: open(completed_path, "w"), which drops the earlier lines
AppendLineTruncating(f, s) == File(<<s>>)

\* open(completed_path, "a") and cf.write: one more line
AppendLine(f, s) == File(f.lines \o <<s>>)

\* lines 131-134: append to the completed log, release, return "ok"
AppendCompleted(s) ==
  /\ pcM = "collect" /\ wpc[s] = "cs2"
  /\ completedFile' = AppendLine(completedFile, s)
  /\ lock' = LockFree
  /\ status' = [status EXCEPT ![s] = "ok"]
  /\ wpc' = [wpc EXCEPT ![s] = "done"]
  /\ UNCHANGED <<ckpt, ckptTmp, failedFile, files, content, run, pcM,
                 scrapeSide, mainVars, attempt, resp, collected,
                 downloadObs>>

\* lines 130-132 and 136-139: the append raises; the with block releases
\* the lock on the way out
AppendRaises(s) ==
  /\ pcM = "collect" /\ wpc[s] = "cs2"
  /\ MayFail(s)
  /\ lock' = LockFree
  /\ fsFailed' = fsFailed \cup {s}
  /\ Except(s)
  /\ UNCHANGED <<diskVars, content, run, pcM, scrapeSide, mainVars, resp,
                 collected, assetCalls, written, inserted, prevOutcome,
                 prevFinished, cutOff>>

\* a slip: the failed slug is counted and not listed
CollectUnlisted(s) ==
  /\ pcM = "collect" /\ wpc[s] = "done" /\ s \notin collected
  /\ lock = LockFree
  /\ results' = [results EXCEPT ![status[s]] = @ + 1]
  /\ collected' = collected \cup {s}
  /\ UNCHANGED <<diskVars, content, run, pcM, lock, scrapeSide, completed,
                 slugs_to_download, seen_hashes, failed_slugs, wpc, attempt,
                 resp, status, downloadObs>>

\* lines 205-212: as_completed hands over a finished future; the tally is
\* taken with the lock held
Collect(s) ==
  /\ pcM = "collect" /\ wpc[s] = "done" /\ s \notin collected
  /\ lock = LockFree
  /\ results' = [results EXCEPT ![status[s]] = @ + 1]
  /\ failed_slugs' =
       IF status[s] = "fail" THEN Append(failed_slugs, s) ELSE failed_slugs
  /\ collected' = collected \cup {s}
  /\ UNCHANGED <<diskVars, content, run, pcM, lock, scrapeSide, completed,
                 slugs_to_download, seen_hashes, wpc, attempt, resp, status,
                 downloadObs>>

\* lines 215-216
WriteFailed(f, failed) ==
  IF failed # <<>> THEN atomic_write(f, NoFile, failed)[1] ELSE f

\* lines 213-221: the pool has joined; the failed list is saved
MainFinish ==
  /\ pcM = "collect" /\ collected = slugs_to_download
  /\ failedFile' = WriteFailed(failedFile, failed_slugs)
  /\ pcM' = "done"
  /\ UNCHANGED <<ckpt, ckptTmp, completedFile, files, content, run, lock,
                 scrapeSide, mainVars, workerVars, downloadObs>>

\* what a kill leaves of the asset files: a worker between open and the
\* end of write leaves no file, or a file without its payload
FilesAfterKill ==
  {f \in [Slugs -> {NoFile, File(<<>>)} \cup {files[s] : s \in Slugs}] :
     \A s \in Slugs :
       \/ f[s] = files[s]
       \/ wpc[s] = "write" /\ f[s] = File(<<>>)}

\* the slugs whose worker a kill catches after open(path, "wb") has
\* created the file and before the completed-log line is written, when
\* the kill leaves the files f
CutOffByKill(f) ==
  {s \in Slugs : wpc[s] \in {"write", "lock2", "cs2"} /\ f[s].exists}

\* the process is killed during the download phase
KillDownload ==
  /\ pcM \in {"filter", "submit", "collect"}
  /\ files' \in FilesAfterKill
  /\ pcM' = "killed"
  /\ lock' = LockFree
  /\ FreshDownloadNext
  /\ FreshDownloadObsNext
  /\ cutOff' = cutOff \cup CutOffByKill(files')
  /\ UNCHANGED <<ckpt, ckptTmp, completedFile, failedFile, content, run,
                 scrapeSide, prevOutcome, prevFinished>>

\* the program is run again on the same output folder, and discovery
\* returns the same slugs
Rerun ==
  /\ pcM \in {"killed", "done"}
  /\ run < MaxRuns
  /\ run' = run + 1
  /\ pcM' = "filter"
  /\ lock' = LockFree
  /\ prevOutcome' = status
  /\ prevFinished' = (pcM = "done")
  /\ FreshDownloadNext
  /\ FreshDownloadObsNext
  /\ UNCHANGED <<diskVars, content, scrapeSide, cutOff>>

Next ==
  \/ MainFilter
  \/ MainSubmit
  \/ \E s \in Slugs : WorkerStart(s)
  \/ \E s \in Slugs : RequestOk(s)
  \/ \E s \in Slugs : RequestFails(s)
  \/ \E s \in Slugs : Acquire1(s)
  \/ \E s \in Slugs : CheckInsert(s)
  \/ \E s \in Slugs : WriteFile(s)
  \/ \E s \in Slugs : WriteRaises(s)
  \/ \E s \in Slugs : Acquire2(s)
  \/ \E s \in Slugs : AppendCompleted(s)
  \/ \E s \in Slugs : AppendRaises(s)
  \/ \E s \in Slugs : Collect(s)
  \/ MainFinish
  \/ KillDownload
  \/ Rerun

Spec == Init /\ [][Next]_vars

\* ----------------------------------------------- one download phase, fair

\* lines 98-139: a step of the pool thread that runs download(s); a
\* request that fails or times out is a step like any other
WorkerStep(s) ==
  \/ WorkerStart(s)
  \/ RequestOk(s)
  \/ RequestFails(s)
  \/ Acquire1(s)
  \/ CheckInsert(s)
  \/ WriteFile(s)
  \/ WriteRaises(s)
  \/ Acquire2(s)
  \/ AppendCompleted(s)
  \/ AppendRaises(s)

\* lines 181-221: a step of the main thread
MainStep ==
  \/ MainFilter
  \/ MainSubmit
  \/ \E s \in Slugs : Collect(s)
  \/ MainFinish

\* the download phase of one process that nothing kills
NextLive ==
  \/ MainStep
  \/ \E s \in Slugs : WorkerStep(s)

\* the operating system runs every thread that can take a step, and every
\* request returns or times out (TIMEOUT, line 17)
Fairness ==
  /\ WF_vars(MainStep)
  /\ \A s \in Slugs : WF_vars(WorkerStep(s))

SpecLive == Init /\ [][NextLive]_vars /\ Fairness

\* ================================================================== claims

CeilDiv(a, b) == (a + b - 1) \div b

\* ---- C3 (as the spec states it): a scrape_slugs restarted after an
\* interruption that followed at least one completed save returns the set
\* an uninterrupted run returns
C3_ResumedEqualsUninterrupted ==
  (pcM = "filter" /\ run > 1 /\ savedEver)
    => slugs = ScrapeResult(load_checkpoint(ckpt0), 1, perRound)

\* ---- C4: in every state, a killed process's included, the checkpoint
\* file holds the whole text of the last save_checkpoint that returned (or
\* what it held before the program ran): never a part of a text
C4_CheckpointAtomic == ckpt = lastSaved

\* a kill inside f.write that left two lines of a longer text in the
\* temporary file, with the earlier one-line checkpoint still in place
C4_Witness ==
  /\ pcM = "killed" /\ killedAt = "save_write"
  /\ Len(ckptTmp.lines) = 2
  /\ ckpt.exists /\ Len(ckpt.lines) = 1

\* ---- C5: from an empty checkpoint, against the endpoint that serves
\* NumIds identifiers perRound at a time and then nothing new (every
\* response a 200), the first process never issues more than ceil(N/k)+1
\* listing requests, and when scrape_slugs returns it has issued exactly
\* that many and holds N slugs
C5_TerminationBound ==
  (run = 1 /\ load_checkpoint(ckpt0) = {} /\ ~badStatus)
    => /\ listCalls <= CeilDiv(NumIds, perRound) + 1
       /\ pcM = "filter"
            => /\ listCalls = CeilDiv(NumIds, perRound) + 1
               /\ rounds = CeilDiv(NumIds, perRound) + 1
               /\ Cardinality(slugs) = NumIds

C5_Witness ==
  /\ pcM = "filter" /\ run = 1 /\ load_checkpoint(ckpt0) = {} /\ ~badStatus
  /\ perRound = 3 /\ listCalls = 4 /\ Cardinality(slugs) = NumIds

\* ---- C10: once a listing request has raised, the process is aborted: it
\* issues no further request, completes no save, leaves the checkpoint and
\* its temporary file alone and never reaches the download phase; the
\* checkpoint is the text of the last completed save (or the pre-run
\* content), and that is the set a restarted process loads
C10_FailureLeavesCheckpoint ==
  /\ [](raised => pcM = "aborted" /\ ckpt = lastSaved)
  /\ [][(raised /\ run' = run)
          => /\ UNCHANGED <<ckpt, ckptTmp, listCalls, saves>>
             /\ pcM' = "aborted"]_vars
  /\ [](run > 1 /\ pcM = "scrape" /\ pcS = "request" /\ rounds = 0
          => slugs = load_checkpoint(lastSaved))

\* a request raised after this process had completed a save
C10_Witness ==
  /\ raised /\ pcM = "aborted" /\ saves = 1
  /\ ckpt = lastSaved /\ ckpt # ckpt0

\* ---- observations of the download phase

NoDup(q) == \A i, j \in DOMAIN q : i # j => q[i] # q[j]

WithStatus(o) == {s \in Slugs : status[s] = o}

\* a and b are the two slugs, and the only two, that share a payload
SharedPair(a, b) ==
  /\ a < b
  /\ content[a] = content[b]
  /\ \A c \in Slugs \ {a, b} : content[c] # content[a]

\* both of a and b were dispatched, met no existing file, got a payload
\* and met no file error, and both have returned
BothFetched(a, b) ==
  /\ {a, b} \subseteq slugs_to_download
  /\ wpc[a] = "done" /\ wpc[b] = "done"
  /\ {status[a], status[b]} \cap {"skip", "fail"} = {}
  /\ {a, b} \cap fsFailed = {}

\* ---- C1: of two slugs with the same payload, met by no file error, at
\* most one file is written at any time, and once both have fetched their
\* payload and returned, one is "ok", the other "dedup", and exactly the
\* "ok" one's file was written, whatever the interleaving
C1_DedupCorrect ==
  \A a, b \in Slugs :
    (SharedPair(a, b) /\ {a, b} \cap fsFailed = {})
      => /\ Cardinality(written \cap {a, b}) <= 1
         /\ BothFetched(a, b)
              => /\ {status[a], status[b]} = {"ok", "dedup"}
                 /\ written \cap {a, b} = WithStatus("ok") \cap {a, b}

\* slugs 2 and 3 share a payload and 3 claimed it first
C1_Witness ==
  /\ pcM = "done" /\ SharedPair(2, 3) /\ BothFetched(2, 3)
  /\ status[3] = "ok" /\ status[2] = "dedup"
  /\ written \cap {2, 3} = {3}

\* ---- C2 (as the spec states it): a second run after a finished first
\* run, on the same slugs and with nothing cleared, issues no asset request
C2_SecondRunNoRequests ==
  (run > 1 /\ prevFinished) => \A s \in Slugs : assetCalls[s] = 0

\* ---- C2 (amended): the second run issues no asset request for a slug
\* whose outcome in the first run was "ok" or "skip": it is filtered out
\* by the completed set or returns "skip" from the existing-file check
C2_SecondRunSkipsStored ==
  (run > 1 /\ prevFinished)
    => \A s \in Slugs :
         prevOutcome[s] \in {"ok", "skip"}
           => /\ assetCalls[s] = 0
              /\ status[s] \in {"none", "skip"}
              /\ (pcM = "done" /\ prevOutcome[s] = "ok") => status[s] = "none"
              /\ (pcM = "done" /\ slugs_to_download # {}
                    /\ prevOutcome[s] = "skip") => status[s] = "skip"

\* a finished second run after a first run with "ok", "skip" and "dedup"
C2_Witness ==
  /\ run = 2 /\ prevFinished /\ pcM = "done"
  /\ \E s, t, u \in Slugs :
       /\ prevOutcome[s] = "ok" /\ status[s] = "none"
       /\ prevOutcome[t] = "skip" /\ status[t] = "skip"
       /\ prevOutcome[u] = "dedup" /\ status[u] = "ok" /\ assetCalls[u] = 1

\* a / b < c / d, for fractions kept as <<numerator, denominator>>
Less(x, y) == x[1] * y[2] < y[1] * x[2]

\* ---- C6: download never issues a fifth request; the i-th sleep is
\* BACKOFF_BASE ** i, so the sleeps grow strictly; there is one sleep
\* between consecutive attempts and none after the last; without a file
\* error, "fail" comes after exactly MAX_RETRIES requests, and a payload
\* received on the fourth request gives "ok" (or "dedup" when another slug
\* holds the same payload)
C6_RetryBackoff ==
  \A s \in Slugs :
    /\ assetCalls[s] <= MAX_RETRIES
    /\ \A i \in DOMAIN sleeps[s] : sleeps[s][i] = Backoff(i)
    /\ \A i, j \in DOMAIN sleeps[s] : i < j => Less(sleeps[s][i], sleeps[s][j])
    /\ wpc[s] = "request" => Len(sleeps[s]) = attempt[s] - 1
    /\ (wpc[s] = "done" /\ status[s] # "skip")
         => Len(sleeps[s]) = attempt[s] - 1
    /\ s \notin fsFailed
         => /\ assetCalls[s] \in {attempt[s], attempt[s] - 1}
            /\ status[s] = "fail"
                 => /\ assetCalls[s] = MAX_RETRIES
                    /\ Len(sleeps[s]) = MAX_RETRIES - 1
            /\ (wpc[s] = "done" /\ assetCalls[s] = MAX_RETRIES
                  /\ resp[s] # <<>>)
                 => /\ status[s] \in {"ok", "dedup"}
                    /\ (\A t \in Slugs \ {s} : content[t] # content[s])
                         => status[s] = "ok"

\* slug 1 failed four times
C6_Witness ==
  /\ wpc[1] = "done" /\ status[1] = "fail" /\ 1 \notin fsFailed
  /\ assetCalls[1] = 4
  /\ sleeps[1] = <<<<3, 2>>, <<9, 4>>, <<27, 8>>>>

\* ---- C7: at the end of a download run that started from an empty
\* completed log, the log holds exactly the slugs whose outcome was "ok",
\* each once; and for slug 1 with a payload of its own and slugs 2 and 3
\* sharing one (no file there before, no failure), the outcomes are two
\* "ok" and one "dedup" and the log holds slug 1 and one of 2 and 3
C7_CompletedLog ==
  (pcM = "done" /\ completed = {})
    => /\ NoDup(completedFile.lines)
       /\ Range(completedFile.lines) = WithStatus("ok")
       /\ (/\ content[1] # content[2] /\ SharedPair(2, 3)
           /\ WithStatus("skip") = {} /\ WithStatus("fail") = {}
           /\ fsFailed = {})
            => /\ results = [o \in Outcomes |->
                               IF o = "ok" THEN 2
                               ELSE IF o = "dedup" THEN 1 ELSE 0]
               /\ Len(completedFile.lines) = 2
               /\ 1 \in Range(completedFile.lines)
               /\ Cardinality(Range(completedFile.lines) \cap {2, 3}) = 1

\* the example, with slug 3 the first to claim the shared payload
C7_Witness ==
  /\ pcM = "done" /\ completed = {}
  /\ content[1] # content[2] /\ SharedPair(2, 3)
  /\ fsFailed = {}
  /\ status = [s \in Slugs |-> IF s = 2 THEN "dedup" ELSE "ok"]
  /\ completedFile.lines = <<3, 1>>

\* ---- C8 (as the spec states it): when main has finished, the failed log
\* holds exactly the slugs whose outcome in this run was "fail"
C8_FailedLogIsThisRun ==
  pcM = "done" => Range(failedFile.lines) = WithStatus("fail")

\* a worker step, a tally or the end of main can be taken
StepForward ==
  \/ \E s \in Slugs :
       \/ WorkerStart(s) \/ RequestOk(s) \/ Acquire1(s) \/ CheckInsert(s)
       \/ WriteFile(s) \/ Acquire2(s) \/ AppendCompleted(s) \/ Collect(s)
  \/ MainFinish

\* ---- C9: "fail" comes only from the slug's own MAX_RETRIES attempts;
\* while the pool runs, a "fail" stops nothing (some worker, the tally or
\* the end of main can always go on); and when main has finished after
\* dispatching, every dispatched slug has exactly one outcome, the four
\* tallies count them and sum to the number dispatched, and the failed
\* list is exactly the slugs counted under "fail"
C9_BatchIsolation ==
  /\ \A s \in Slugs : status[s] = "fail" => attempt[s] = MAX_RETRIES
  /\ pcM = "collect" => ENABLED StepForward
  /\ (pcM = "done" /\ slugs_to_download # {})
       => /\ \A s \in slugs_to_download :
               wpc[s] = "done" /\ status[s] \in Outcomes
          /\ \A s \in Slugs \ slugs_to_download : status[s] = "none"
          /\ \A o \in Outcomes : results[o] = Cardinality(WithStatus(o))
          /\ results["ok"] + results["skip"] + results["dedup"]
               + results["fail"] = Cardinality(slugs_to_download)
          /\ NoDup(failed_slugs)
          /\ Range(failed_slugs) = WithStatus("fail")

\* slug 1 failed, and the two others still came to "ok" and "dedup"
C9_Witness ==
  /\ pcM = "done" /\ status[1] = "fail"
  /\ results["fail"] = 1 /\ results["ok"] = 1 /\ results["dedup"] = 1
  /\ failed_slugs = <<1>>

\* ---- C11 (as the spec states it): a listing response with a non-success
\* status aborts discovery: the process that received one never goes on to
\* the download phase
C11_BadStatusIsFatal == badStatus => pcM # "filter"

\* ---- C12 (as the spec states it): a file error met by download while it
\* writes the asset file or appends to the completed log is not retried
\* and gives no outcome: it leaves the worker and aborts the run
C12_FilesystemErrorsPropagate ==
  \A s \in fsFailed :
    /\ pcM = "aborted"
    /\ status[s] = "none"
    /\ wpc[s] # "request"

\* ---- observations of the lock

\* the workers inside a with lock block
InLock == {s \in Slugs : wpc[s] \in {"cs1", "cs2"}}

\* the workers between open(path, "wb") and the end of f.write, by path
AssetWriters(p) == {s \in Slugs : wpc[s] = "write" /\ DestPath(s) = p}

\* scrape_slugs is inside save_checkpoint
InSave == pcS \in {"save_open", "save_write", "save_replace", "save_unlock"}

\* ---- C13 (as the spec states it): every write of an asset file is done
\* by a worker that holds the lock (the write is a plain open and write,
\* not a temporary file and a rename)
C13_AssetWriteLocked ==
  \A s \in Slugs : wpc[s] = "write" => lock = LockOf(s)

\* ---- C13 (amended): the hash registry changes and the completed log
\* grows only in a step of the worker that holds the lock, and the
\* checkpoint is saved only with the lock held by scrape_slugs; at most one
\* thread is inside a with lock block; the failed log is written by main
\* through atomic_write when no worker runs; an asset file is written
\* outside the lock, by the one worker of its slug, so no path has two
\* writers at the same time
C13_MutualExclusion ==
  /\ [](/\ Cardinality(InLock) <= 1
        /\ \A s \in Slugs : s \in InLock <=> lock = LockOf(s)
        /\ pcM = "scrape" => (InSave <=> lock = LockMain)
        /\ \A s \in Slugs : Cardinality(AssetWriters(DestPath(s))) <= 1
        /\ \A s, u \in Slugs : s # u => DestPath(s) # DestPath(u))
  /\ [][(pcM = "collect" /\ pcM' = "collect")
          => /\ seen_hashes' # seen_hashes
                  => \E s \in Slugs : lock = LockOf(s) /\ wpc[s] = "cs1"
             /\ completedFile' # completedFile
                  => \E s \in Slugs : lock = LockOf(s) /\ wpc[s] = "cs2"
             /\ \A s \in Slugs :
                  files'[s] # files[s]
                    => /\ wpc[s] = "write" /\ lock # LockOf(s)
                       /\ \A u \in Slugs \ {s} : files'[u] = files[u]]_vars
  /\ [][failedFile' # failedFile
          => /\ Running = {} /\ lock = LockFree
             /\ failedFile' = atomic_write(failedFile, NoFile, failed_slugs)[1]]_vars
  /\ [][ckpt' # ckpt => lock = LockMain /\ pcS = "save_replace"]_vars

\* one worker holds the lock for the registry while a second writes its
\* asset file and a third waits for the lock to append
C13_Witness ==
  \E a, b, c \in Slugs :
    /\ wpc[a] = "cs1" /\ lock = LockOf(a)
    /\ wpc[b] = "write"
    /\ wpc[c] = "lock2"

\* the files this process wrote that hold the payload of digest h
StoredUnder(h) ==
  {u \in written : files[u].exists /\ sha256(files[u].lines) = h}

\* ---- C14 (as the spec states it): when main has finished after
\* dispatching, each digest in seen_hashes has exactly one file written by
\* this run that holds its payload, at the destination of the slug that
\* inserted the digest, and every "dedup" slug's payload is on disk under
\* another slug
C14_StoredOnceUnderClaimer ==
  (pcM = "done" /\ slugs_to_download # {})
    => /\ \A h \in seen_hashes :
            \E s \in inserted :
              sha256(resp[s]) = h /\ StoredUnder(h) = {s}
       /\ \A s \in WithStatus("dedup") :
            \E u \in Slugs \ {s} :
              files[u].exists /\ files[u].lines = resp[s]

\* ---- observations of the checkpoint

\* the discovered slugs the checkpoint file does not hold
Unsaved == slugs \ load_checkpoint(ckpt)

\* how far the final save (lines 92-96) has come
FinalRank(p) ==
  CASE p = "save_lock" -> 1
    [] p = "save_open" -> 2
    [] p = "save_write" -> 3
    [] p = "save_replace" -> 4
    [] p = "save_unlock" -> 5
    [] p = "returned" -> 6
    [] OTHER -> 0

\* ---- C15: between saves new_since_save counts the slugs the checkpoint
\* lacks; a periodic save is begun only with the count at 5 or more and no
\* round ends with 5 or more unsaved, so the rounds that save are exactly
\* those that reach the threshold; the periodic save writes the whole set
\* and resets the counter to 0; after the loop's exit the final save runs
\* once, straight through, whatever the counter; and when scrape_slugs has
\* returned the checkpoint file is the returned set
C15_CheckpointPolicy ==
  /\ []((pcM = "scrape" /\ pcS \in {"request", "check", "brk"})
          => new_since_save = Cardinality(Unsaved))
  /\ []((pcM = "scrape" /\ pcS \in {"request", "brk"})
          => new_since_save < CHECKPOINT_INTERVAL)
  /\ []((pcM = "scrape" /\ InSave /\ ~inFinal)
          => new_since_save >= CHECKPOINT_INTERVAL)
  /\ [][(pcM = "scrape" /\ pcM' = "scrape" /\ pcS = "save_unlock" /\ ~inFinal)
          => /\ new_since_save' = 0 /\ pcS' = "brk"
             /\ ckpt = File(CheckpointText(slugs))]_vars
  /\ [][(pcM = "scrape" /\ pcM' = "scrape" /\ pcS = "check")
          => (pcS' = "save_lock" <=> new_since_save >= CHECKPOINT_INTERVAL)]_vars
  /\ [][(pcM = "scrape" /\ pcM' \in {"scrape", "filter"} /\ inFinal)
          => /\ inFinal'
             /\ FinalRank(pcS') = FinalRank(pcS) + 1
             /\ saves' = IF pcS = "save_replace" THEN saves + 1 ELSE saves]_vars
  /\ [](pcM = "filter"
          => /\ ckpt = File(CheckpointText(slugs))
             /\ load_checkpoint(ckpt) = slugs
             /\ saves >= 1)

\* seven slugs five at a time: a periodic save after round 1, none after
\* round 2 (two unsaved), and the final save after the empty round 3
C15_Witness ==
  /\ pcM = "filter" /\ run = 1 /\ ~badStatus /\ load_checkpoint(ckpt0) = {}
  /\ perRound = CHECKPOINT_INTERVAL /\ rounds = 3
  /\ saves = 2 /\ new_since_save = NumIds - CHECKPOINT_INTERVAL
  /\ load_checkpoint(ckpt) = Ids

\* ---- C16: download(s) that finds a file at its destination returns
\* "skip" in that one step, which changes no file, no log and not the
\* registry and issues no request; a slug with outcome "skip" has had no
\* attempt, no request and no payload, has written nothing, has inserted
\* no digest and has no line in the completed log; and download(s) that
\* finds no file goes on to its first attempt
C16_SkipOnExistingFile ==
  /\ [][\A s \in Slugs :
          (pcM = "collect" /\ pcM' = "collect"
             /\ wpc[s] = "idle" /\ wpc'[s] # "idle")
            => IF files[s].exists
                 THEN /\ status'[s] = "skip" /\ wpc'[s] = "done"
                      /\ UNCHANGED <<diskVars, seen_hashes, assetCalls,
                                     attempt, resp, written, inserted>>
                 ELSE /\ status'[s] = "none" /\ wpc'[s] = "request"]_vars
  /\ [](\A s \in WithStatus("skip") :
          /\ files[s].exists
          /\ assetCalls[s] = 0 /\ attempt[s] = 0 /\ resp[s] = <<>>
          /\ s \notin written \cup inserted \cup fsFailed
          /\ s \notin Range(completedFile.lines))

\* slug 1 skipped with a payload of its own, which is not in the registry,
\* while slug 2 was fetched and stored
C16_Witness ==
  /\ pcM = "done" /\ status[1] = "skip" /\ status[2] = "ok"
  /\ assetCalls[1] = 0
  /\ seen_hashes = {sha256(content[2])}
  /\ sha256(files[1].lines) \notin seen_hashes
  /\ completedFile.lines = <<2>>

\* ---- C17: a slug whose worker a kill caught between the creation of
\* its file and its completed-log line keeps that file, as it is, through
\* every later process; it is never in the completed set or the completed
\* log, it is dispatched, no request is issued for it, and its outcome is
\* "skip"
C17_PartialTreatedComplete ==
  /\ [](\A s \in cutOff :
          /\ files[s].exists
          /\ s \notin completed \cup Range(completedFile.lines)
          /\ pcM \in {"submit", "collect", "done"} => s \in slugs_to_download
          /\ assetCalls[s] = 0 /\ attempt[s] = 0
          /\ s \notin written \cup inserted
          /\ status[s] \in {"none", "skip"}
          /\ (wpc[s] = "done" \/ pcM = "done") => status[s] = "skip")
  /\ [][\A s \in cutOff : files'[s] = files[s]]_vars

\* the kill left slug 1's file without its payload; the next process ran
\* to its end, skipped slug 1 and stored slug 2
C17_Witness ==
  /\ run = 2 /\ ~prevFinished /\ pcM = "done"
  /\ 1 \in cutOff /\ files[1] = File(<<>>) /\ status[1] = "skip"
  /\ status[2] = "ok" /\ completedFile.lines = <<2>>

\* ---- C18: in every state, those after a kill included, each slug in
\* the completed log has its file, with the whole payload, at its
\* destination; a line is added only for a slug whose file this process
\* has written; and no slug is in the log twice
C18_CompletedImpliesFile ==
  /\ [](\A s \in Range(completedFile.lines) :
          files[s].exists /\ files[s].lines = content[s])
  /\ [](NoDup(completedFile.lines))
  /\ [][completedFile' # completedFile
          => \E s \in written :
               /\ completedFile' = AppendLine(completedFile, s)
               /\ files[s] = File(resp[s])
               /\ s \notin Range(completedFile.lines)]_vars

\* a kill after slug 2's line was written, with slug 1 caught inside its
\* write
C18_Witness ==
  /\ pcM = "killed"
  /\ completedFile.lines = <<2>> /\ files[2] = File(content[2])
  /\ 1 \in cutOff /\ files[1] = File(<<>>)

\* main has finished and every dispatched slug has an outcome
Joined ==
  /\ pcM = "done"
  /\ \A s \in slugs_to_download : wpc[s] = "done" /\ status[s] \in Outcomes

\* ---- C19: the lock is held by a worker exactly while that worker is
\* inside one of its two with lock blocks, so never during a request, a
\* sleep, the asset write or after a return (the dedup return included);
\* and when every thread that can step does step and every request
\* returns, every dispatched slug comes to an outcome and main finishes
C19_LockDisciplineProgress ==
  /\ [](\A s \in Slugs : lock = LockOf(s) <=> wpc[s] \in {"cs1", "cs2"})
  /\ [](lock = LockFree \/ \E s \in Slugs : lock = LockOf(s))
  /\ [](\A s \in Slugs :
          wpc[s] \in {"request", "write", "done"} => lock # LockOf(s))
  /\ <>Joined

\* slug 3 returned "dedup" from inside the with block and the lock is
\* free again, while slug 1, after a failed request, waits to ask again
C19_Witness ==
  /\ pcM = "collect" /\ lock = LockFree
  /\ wpc[3] = "done" /\ status[3] = "dedup"
  /\ wpc[1] = "request" /\ attempt[1] = 2 /\ Len(sleeps[1]) = 1
  /\ wpc[2] = "lock2"

\* ---- C20: within one process of discovery the set in memory only
\* grows; the checkpoint file never loses a slug, so it always holds what
\* the process loaded (and what was there before the first process); once
\* loaded, the set in memory holds everything the file holds, and equals
\* it right after the load; and at the start of every round fewer than
\* CHECKPOINT_INTERVAL discovered slugs are missing from the file
C20_CheckpointMonotone ==
  /\ [][(pcM = "scrape" /\ pcM' = "scrape") => slugs \subseteq slugs']_vars
  /\ [][load_checkpoint(ckpt) \subseteq load_checkpoint(ckpt')]_vars
  /\ [](load_checkpoint(ckpt0) \subseteq load_checkpoint(ckpt))
  /\ []((pcM = "scrape" /\ pcS = "request" /\ rounds = 0)
          => slugs = load_checkpoint(ckpt))
  /\ []((pcM = "scrape" /\ pcS # "load")
          => load_checkpoint(ckpt) \subseteq slugs)
  /\ []((pcM = "scrape" /\ pcS = "request")
          => Cardinality(Unsaved) < CHECKPOINT_INTERVAL)

\* the checkpoint held the last slug before the run, and round 1 found
\* four more: one short of the threshold, nothing saved yet
C20_Witness ==
  /\ pcM = "scrape" /\ pcS = "request" /\ rounds = 1
  /\ load_checkpoint(ckpt) = {NumIds} /\ ckpt = ckpt0
  /\ Cardinality(Unsaved) = CHECKPOINT_INTERVAL - 1

====
